---- MODULE Spec2Model ----
(***************************************************************************)
(* Model of the rust-graph crate: the adjacency-list engine                *)
(* (src/src/adjacency_list_graph.rs) and the default-implemented searches  *)
(* of SearchableGraph (src/src/searchable_graph.rs).                       *)
(*                                                                         *)
(* Rust vectors are 0-indexed, TLA+ sequences 1-indexed: the element at    *)
(* Rust index i is seq[i + 1].                                             *)
(***************************************************************************)
EXTENDS Integers, Sequences, FiniteSets, TLC

VARIABLES
    signed,        \* the instantiation of K: a signed or an unsigned KeyBits-bit integer
    nodes,         \* AdjacencyListGraph.nodes : Vec<V>
    edges,         \* AdjacencyListGraph.edges : Vec<Vec<AdjacencyListEdge<K, W>>>
    panicked,      \* TRUE once a call has aborted (Option::unwrap on None)
    lastOp,        \* the last call made on the graph: its name and its key / source argument
    ret,           \* the value the last call returned
    call,          \* the search in progress: "none", "dfs" or "bfs"
    pc,            \* "idle", "loop" (inside the while loop) or "done" (returned)
    source,        \* argument of the search
    destination,   \* argument of the search
    dfs_visited,   \* find_path_dfs: visited : Vec<K>
    stack,         \* find_path_dfs: stack : Vec<LinkedNode<K>>
    bfs_visited,   \* find_path_bfs: visited : HashSet<K>
    queue,         \* find_path_bfs: queue : VecDeque<LinkedNode<K>>
    result,        \* the Option<Vec<K>> the search returned
    enq,           \* per key: how many LinkedNodes of that key were put on the queue
    deq            \* per key: how many LinkedNodes of that key were taken off the queue

graphVars == <<signed, nodes, edges, panicked, lastOp, ret>>
searchVars == <<call, pc, source, destination, dfs_visited, stack, bfs_visited,
                queue, result, enq, deq>>
vars == <<signed, nodes, edges, panicked, lastOp, ret, call, pc, source,
          destination, dfs_visited, stack, bfs_visited, queue, result, enq, deq>>

----------------------------------------------------------------------------
(* Bounds *)

KeyBits == 2
MaxNodes == 5
MaxEdges == 2
MaxInitNodes == 2
MaxSearchNodes == 3
MaxSearchEdges == 3
MaxFairSearchEdges == 2

Values == {"a", "b"}
Weights == {1}

----------------------------------------------------------------------------
(* The key type K: PrimInt, and its conversions *)

RECURSIVE Pow2(_)
Pow2(n) == IF n = 0 THEN 1 ELSE 2 * Pow2(n - 1)

KeyMin == IF signed THEN 0 - Pow2(KeyBits - 1) ELSE 0
KeyMax == IF signed THEN Pow2(KeyBits - 1) - 1 ELSE Pow2(KeyBits) - 1
Keys == KeyMin .. KeyMax

NoneInt == [some |-> FALSE, val |-> 0]
SomeInt(x) == [some |-> TRUE, val |-> x]
NoneV == [some |-> FALSE, val |-> ""]
SomeV(v) == [some |-> TRUE, val |-> v]

\* ToPrimitive::to_usize: None when the key is negative (usize is at least as
\* wide as K here, so no key is too large).
to_usize(key) == IF key < 0 THEN NoneInt ELSE SomeInt(key)

\* NumCast::from::<usize>: None when the index does not fit in K.
K_from(index) == IF index > KeyMax THEN NoneInt ELSE SomeInt(index)

W_zero == 0

AdjacencyListEdge(d, w) == [destination |-> d, weight |-> w]

----------------------------------------------------------------------------
(* Vec primitives *)

\* Vec::remove(index): removes the element at the 0-based index, shifting the rest.
VecRemove(v, index) == SubSeq(v, 1, index) \o SubSeq(v, index + 2, Len(v))

\* Vec::get(index)
VecHas(v, index) == index >= 0 /\ index < Len(v)

RECURSIVE PositionFrom(_, _, _)
PositionFrom(es, d, i) ==
    IF i >= Len(es) THEN NoneInt
    ELSE IF es[i + 1].destination = d THEN SomeInt(i)
    ELSE PositionFrom(es, d, i + 1)

RECURSIVE PositionBack(_, _, _)
PositionBack(es, d, i) ==
    IF i < 0 THEN NoneInt
    ELSE IF es[i + 1].destination = d THEN SomeInt(i)
    ELSE PositionBack(es, d, i - 1)

\* rposition in place of position: the highest matching index
position_Last(es, d) == PositionBack(es, d, Len(es) - 1)

\* edges.iter().position(|e| &e.destination == destination)
position(es, d) == PositionFrom(es, d, 0)

TotalEdges == LET RECURSIVE Sum(_)
                  Sum(i) == IF i = 0 THEN 0 ELSE Len(edges[i]) + Sum(i - 1)
              IN Sum(Len(edges))

----------------------------------------------------------------------------
(* Return values *)

RetUnit == [some |-> FALSE, val |-> "", key |-> 0]
RetBool(b) == [some |-> b, val |-> "", key |-> 0]
RetKey(k) == [some |-> TRUE, val |-> "", key |-> k]
RetOptV(o) == [some |-> o.some, val |-> o.val, key |-> 0]

Op(o, k) == [op |-> o, key |-> k]

----------------------------------------------------------------------------
(* AdjacencyListGraph: construction and the Graph / WeightedGraph contracts *)

SearchIdle ==
    /\ call = "none"
    /\ pc = "idle"
    /\ source = 0
    /\ destination = 0
    /\ dfs_visited = <<>>
    /\ stack = <<>>
    /\ bfs_visited = {}
    /\ queue = <<>>
    /\ result = [some |-> FALSE, path |-> <<>>]
    /\ enq = <<>>
    /\ deq = <<>>

\* AdjacencyListGraph::new(nodes): one empty edge list per initial node.
new(initial_nodes) ==
    /\ nodes = initial_nodes
    /\ edges = [i \in 1 .. Len(initial_nodes) |-> <<>>]

InitialNodeLists ==
    UNION {[1 .. n -> Values] : n \in 0 .. MaxInitNodes}

Init ==
    /\ signed \in BOOLEAN
    /\ \E initial_nodes \in InitialNodeLists : new(initial_nodes)
    /\ panicked = FALSE
    /\ lastOp = Op("new", 0)
    /\ ret = RetUnit
    /\ SearchIdle

\* insert without the matching edges.push(vec![])
insert_NoEdgeList(value) ==
    /\ ~panicked
    /\ lastOp' = Op("insert", 0)
    /\ nodes' = Append(nodes, value)
    /\ edges' = edges
    /\ LET k == K_from(Len(nodes') - 1) IN
         /\ panicked' = ~k.some
         /\ ret' = IF k.some THEN RetKey(k.val) ELSE RetUnit
    /\ UNCHANGED <<signed, searchVars>>

\* Graph::insert
insert(value) ==
    /\ ~panicked
    /\ lastOp' = Op("insert", 0)
    /\ nodes' = Append(nodes, value)
    /\ edges' = Append(edges, <<>>)
    /\ LET k == K_from(Len(nodes') - 1) IN
         /\ panicked' = ~k.some              \* .unwrap()
         /\ ret' = IF k.some THEN RetKey(k.val) ELSE RetUnit
    /\ UNCHANGED <<signed, searchVars>>

\* remove with edges.pop() in place of edges.remove(index)
remove_PopsLastEdgeList(key) ==
    /\ ~panicked
    /\ lastOp' = Op("remove", key)
    /\ LET index == to_usize(key) IN
         IF ~index.some THEN
             /\ ret' = RetOptV(NoneV)
             /\ UNCHANGED <<nodes, edges>>
         ELSE IF index.val >= Len(nodes) THEN
             /\ ret' = RetOptV(NoneV)
             /\ UNCHANGED <<nodes, edges>>
         ELSE
             /\ edges' = SubSeq(edges, 1, Len(edges) - 1)
             /\ nodes' = VecRemove(nodes, index.val)
             /\ ret' = RetOptV(SomeV(nodes[index.val + 1]))
    /\ UNCHANGED <<signed, panicked, searchVars>>

\* Graph::remove
remove(key) ==
    /\ ~panicked
    /\ lastOp' = Op("remove", key)
    /\ LET index == to_usize(key) IN
         IF ~index.some THEN                                \* `?`
             /\ ret' = RetOptV(NoneV)
             /\ UNCHANGED <<nodes, edges>>
         ELSE IF index.val >= Len(nodes) THEN
             /\ ret' = RetOptV(NoneV)
             /\ UNCHANGED <<nodes, edges>>
         ELSE
             /\ edges' = VecRemove(edges, index.val)
             /\ nodes' = VecRemove(nodes, index.val)
             /\ ret' = RetOptV(SomeV(nodes[index.val + 1]))
    /\ UNCHANGED <<signed, panicked, searchVars>>

\* The body shared by add_connection and add_weighted_connection: they differ
\* only in the weight stored.
PushEdge(opname, src, dst, weight) ==
    /\ ~panicked
    /\ lastOp' = Op(opname, src)
    /\ LET index == to_usize(src) IN
         IF ~index.some THEN                                \* .unwrap() on None
             /\ panicked' = TRUE
             /\ ret' = RetUnit
             /\ UNCHANGED <<nodes, edges>>
         ELSE IF ~VecHas(edges, index.val) THEN             \* let-else
             /\ ret' = RetBool(FALSE)
             /\ UNCHANGED <<nodes, edges, panicked>>
         ELSE
             /\ edges' = [edges EXCEPT ![index.val + 1] =
                              Append(@, AdjacencyListEdge(dst, weight))]
             /\ ret' = RetBool(TRUE)
             /\ UNCHANGED <<nodes, panicked>>
    /\ UNCHANGED <<signed, searchVars>>

\* Graph::add_connection
add_connection(src, dst) == PushEdge("add_connection", src, dst, W_zero)

\* WeightedGraph::add_weighted_connection
add_weighted_connection(src, dst, weight) ==
    PushEdge("add_weighted_connection", src, dst, weight)

\* Graph::remove_connection
remove_connection(src, dst) ==
    /\ ~panicked
    /\ lastOp' = Op("remove_connection", src)
    /\ LET index == to_usize(src) IN
         IF ~index.some THEN                                \* .unwrap() on None
             /\ panicked' = TRUE
             /\ ret' = RetUnit
             /\ UNCHANGED <<nodes, edges>>
         ELSE IF ~VecHas(edges, index.val) THEN             \* let-else
             /\ ret' = RetBool(FALSE)
             /\ UNCHANGED <<nodes, edges, panicked>>
         ELSE
             LET es == edges[index.val + 1]
                 at == position(es, dst)
             IN IF at.some THEN
                    /\ edges' = [edges EXCEPT ![index.val + 1] = VecRemove(es, at.val)]
                    /\ ret' = RetBool(TRUE)
                    /\ UNCHANGED <<nodes, panicked>>
                ELSE
                    /\ ret' = RetBool(FALSE)
                    /\ UNCHANGED <<nodes, edges, panicked>>
    /\ UNCHANGED <<signed, searchVars>>

----------------------------------------------------------------------------
(* Read-only lookups and the edge iterators *)

NoneIter == [some |-> FALSE, slice |-> <<>>, front |-> 0, back |-> 0]
\* edges.iter(): a slice iterator over [front, back)
SomeIter(es) == [some |-> TRUE, slice |-> es, front |-> 0, back |-> Len(es)]

\* Graph::get_value
get_value(key) ==
    LET index == to_usize(key) IN
    IF ~index.some THEN NoneV
    ELSE IF ~VecHas(nodes, index.val) THEN NoneV
    ELSE SomeV(nodes[index.val + 1])

\* Graph::get_edges / WeightedGraph::get_weighted_edges: the same borrowed
\* slice iterator; the two wrappers differ in what next() projects.
get_edges(key) ==
    LET index == to_usize(key) IN
    IF ~index.some THEN NoneIter
    ELSE IF ~VecHas(edges, index.val) THEN NoneIter
    ELSE SomeIter(edges[index.val + 1])

get_weighted_edges(key) == get_edges(key)

\* Graph::get / WeightedGraph::get_weighted
get(key) ==
    LET index == to_usize(key) IN
    IF ~index.some THEN [some |-> FALSE, value |-> "", iter |-> NoneIter]
    ELSE IF ~VecHas(nodes, index.val) THEN [some |-> FALSE, value |-> "", iter |-> NoneIter]
    ELSE IF ~VecHas(edges, index.val) THEN [some |-> FALSE, value |-> "", iter |-> NoneIter]
    ELSE [some |-> TRUE, value |-> nodes[index.val + 1],
          iter |-> SomeIter(edges[index.val + 1])]

get_weighted(key) == get(key)

\* EdgeDestinationIterator::next: the item and the advanced iterator
next(it) ==
    IF it.front >= it.back THEN [some |-> FALSE, item |-> 0, iter |-> it]
    ELSE [some |-> TRUE, item |-> it.slice[it.front + 1].destination,
          iter |-> [it EXCEPT !.front = @ + 1]]

\* EdgeDestinationIterator::next_back
next_back(it) ==
    IF it.front >= it.back THEN [some |-> FALSE, item |-> 0, iter |-> it]
    ELSE [some |-> TRUE, item |-> it.slice[it.back].destination,
          iter |-> [it EXCEPT !.back = @ - 1]]

\* WeightedEdgeIterator::next
weighted_next(it) ==
    IF it.front >= it.back THEN [some |-> FALSE, item |-> <<0, 0>>, iter |-> it]
    ELSE [some |-> TRUE,
          item |-> <<it.slice[it.front + 1].destination, it.slice[it.front + 1].weight>>,
          iter |-> [it EXCEPT !.front = @ + 1]]

\* WeightedEdgeIterator::next_back
weighted_next_back(it) ==
    IF it.front >= it.back THEN [some |-> FALSE, item |-> <<0, 0>>, iter |-> it]
    ELSE [some |-> TRUE,
          item |-> <<it.slice[it.back].destination, it.slice[it.back].weight>>,
          iter |-> [it EXCEPT !.back = @ - 1]]

\* `for edge in it`: the items next() yields until it is exhausted
RECURSIVE Forward(_)
Forward(it) ==
    LET n == next(it) IN
    IF n.some THEN <<n.item>> \o Forward(n.iter) ELSE <<>>

\* the loop of find_path_dfs without .rev()
Backward_NotReversed(it) == Forward(it)

\* `for edge in it.rev()`: the items next_back() yields until it is exhausted
RECURSIVE Backward(_)
Backward(it) ==
    LET n == next_back(it) IN
    IF n.some THEN <<n.item>> \o Backward(n.iter) ELSE <<>>

RECURSIVE WeightedForward(_)
WeightedForward(it) ==
    LET n == weighted_next(it) IN
    IF n.some THEN <<n.item>> \o WeightedForward(n.iter) ELSE <<>>

RECURSIVE WeightedBackward(_)
WeightedBackward(it) ==
    LET n == weighted_next_back(it) IN
    IF n.some THEN <<n.item>> \o WeightedBackward(n.iter) ELSE <<>>

----------------------------------------------------------------------------------------------------------------------------------------
(* The graph API as a state machine *)

\* A call that would store one more edge than the model keeps is not made.
EdgeRoom(src, cap) == (src >= 0 /\ src < Len(edges)) => TotalEdges < cap

GraphNext ==
    \/ \E v \in Values : Len(nodes) < MaxNodes /\ insert(v)
    \/ \E k \in Keys : remove(k)
    \/ \E s \in Keys, d \in Keys : EdgeRoom(s, MaxEdges) /\ add_connection(s, d)
    \/ \E s \in Keys, d \in Keys, w \in Weights :
           EdgeRoom(s, MaxEdges) /\ add_weighted_connection(s, d, w)
    \/ \E s \in Keys, d \in Keys : remove_connection(s, d)

Next == GraphNext

Spec == Init /\ [][Next]_vars

----------------------------------------------------------------------------
(* Properties of the graph API *)

ValidIndex(k) == k >= 0 /\ k < Len(nodes)

\* The destinations of an edge list, front to back and back to front, read
\* off the stored records.
Destinations(es) == [i \in 1 .. Len(es) |-> es[i].destination]
DestinationsReversed(es) == [i \in 1 .. Len(es) |-> es[Len(es) + 1 - i].destination]

\* C4: remove(k) with a valid k returns the value stored at k, leaves n-1
\* nodes, keeps every node below k and moves every node above k (value and
\* edge list, destinations and weights as stored) down by one, so that
\* get_value(k) is the shifted node; with k out of range it returns None and
\* both stores are unchanged.
C4_RemoveShifts ==
    [][\A k \in Keys : remove(k) =>
          LET n == Len(nodes) IN
          IF k >= 0 /\ k < n THEN
              /\ ret' = [some |-> TRUE, val |-> nodes[k + 1], key |-> 0]
              /\ Len(nodes') = n - 1
              /\ Len(edges') = n - 1
              /\ \A i \in 0 .. k - 1 :
                     nodes'[i + 1] = nodes[i + 1] /\ edges'[i + 1] = edges[i + 1]
              /\ \A i \in k .. n - 2 :
                     nodes'[i + 1] = nodes[i + 2] /\ edges'[i + 1] = edges[i + 2]
              /\ (get_value(k))' = IF k < n - 1 THEN SomeV(nodes[k + 2]) ELSE NoneV
          ELSE
              /\ ~ret'.some
              /\ nodes' = nodes
              /\ edges' = edges]_vars

\* A remove that shifted a node with a stored edge down onto the removed key,
\* with at least one node below it.
C4_Witness ==
    /\ lastOp.op = "remove"
    /\ ret.some
    /\ lastOp.key >= 1
    /\ lastOp.key < Len(nodes)
    /\ edges[lastOp.key + 1] # <<>>

\* C5: with a source that is not a valid index (too large, or negative),
\* add_connection, remove_connection and add_weighted_connection return
\* false without aborting and leave both stores unchanged.
C5_InvalidSourceIsNoOp ==
    [][\A s \in Keys, d \in Keys, w \in Weights :
          (/\ ~(s >= 0 /\ s < Len(nodes))
           /\ \/ add_connection(s, d)
              \/ remove_connection(s, d)
              \/ add_weighted_connection(s, d, w))
          => (/\ ~panicked'
              /\ ret' = [some |-> FALSE, val |-> "", key |-> 0]
              /\ nodes' = nodes
              /\ edges' = edges)]_vars

OthersUnchanged(s) ==
    /\ Len(edges') = Len(edges)
    /\ \A i \in 1 .. Len(edges) : i # s + 1 => edges'[i] = edges[i]

\* get_edges(s) yields the stored destinations front to back when iterated
\* forward and back to front when iterated in reverse; get_weighted_edges(s)
\* likewise with the weights.
IterationOrder ==
    \A s \in Keys : (s >= 0 /\ s < Len(edges)) =>
        /\ get_edges(s).some
        /\ Forward(get_edges(s)) = Destinations(edges[s + 1])
        /\ Backward(get_edges(s)) = DestinationsReversed(edges[s + 1])
        /\ WeightedForward(get_weighted_edges(s)) =
               [i \in 1 .. Len(edges[s + 1]) |->
                    <<edges[s + 1][i].destination, edges[s + 1][i].weight>>]

\* C6: on a valid source s each add appends the (unvalidated) destination at
\* the end of s's edge list, remove_connection deletes only the lowest-index
\* edge to the destination and returns true iff there was one, other edge
\* lists are unaffected, and get_edges iterates the list in that order in
\* both directions.
C6_EdgeListIsReferenceSequence ==
    /\ []IterationOrder
    /\ [][\A s \in Keys, d \in Keys : (s >= 0 /\ s < Len(nodes)) =>
            /\ add_connection(s, d) =>
                  /\ ret'.some
                  /\ edges'[s + 1] =
                         Append(edges[s + 1], [destination |-> d, weight |-> 0])
                  /\ OthersUnchanged(s)
            /\ \A w \in Weights : add_weighted_connection(s, d, w) =>
                  /\ ret'.some
                  /\ edges'[s + 1] =
                         Append(edges[s + 1], [destination |-> d, weight |-> w])
                  /\ OthersUnchanged(s)
            /\ remove_connection(s, d) =>
                  LET es == edges[s + 1]
                      M == {i \in 1 .. Len(es) : es[i].destination = d}
                  IN IF M = {} THEN ~ret'.some /\ edges' = edges
                     ELSE LET m == CHOOSE i \in M : \A j \in M : i <= j IN
                          /\ ret'.some
                          /\ edges'[s + 1] =
                                 [i \in 1 .. Len(es) - 1 |->
                                      IF i < m THEN es[i] ELSE es[i + 1]]
                          /\ OthersUnchanged(s)]_vars

\* A remove_connection that succeeded on a two-edge list and left the edge
\* that add_weighted_connection had appended after the removed one.
C6_Witness ==
    /\ lastOp.op = "remove_connection"
    /\ ret.some
    /\ ValidIndex(lastOp.key)
    /\ Len(edges[lastOp.key + 1]) = 1
    /\ edges[lastOp.key + 1][1].weight = 1
    /\ TotalEdges = 1

\* C7: insert(v) on a graph of n nodes returns the key n, after which
\* get_value(n) = Some(v) and get_edges(n) is an empty sequence, and the
\* nodes 0..n-1 keep their values and edge lists.
C7_InsertRoundTrip ==
    [][\A v \in Values, n \in {Len(nodes)} : insert(v) =>
          /\ ~panicked'
          /\ ret' = [some |-> TRUE, val |-> "", key |-> n]
          /\ (get_value(n))' = SomeV(v)
          /\ (get_edges(n))'.some
          /\ (Forward(get_edges(n)))' = <<>>
          /\ \A i \in 1 .. n : nodes'[i] = nodes[i] /\ edges'[i] = edges[i]]_vars

\* C8: insert returns a key without aborting, in every state, and the key
\* converts back to the index of the appended node.
C8_InsertAlwaysSucceeds ==
    [][\A v \in Values : insert(v) =>
          /\ ~panicked'
          /\ ret'.key \in Keys
          /\ ret'.key = Len(nodes') - 1]_vars

\* C9: there are as many edge lists as nodes, and get_value, get_edges and
\* get are present for exactly the keys k with 0 <= k < node count.
C9_StoresParallel ==
    /\ Len(edges) = Len(nodes)
    /\ \A k \in Keys :
           /\ get_value(k).some <=> (k >= 0 /\ k < Len(nodes))
           /\ get_edges(k).some <=> (k >= 0 /\ k < Len(nodes))
           /\ get(k).some <=> (k >= 0 /\ k < Len(nodes))
           /\ get_weighted(k).some <=> (k >= 0 /\ k < Len(nodes))

\* After a successful remove from a graph that also went through insert and
\* add_connection, with keys of the type on both sides of the node count.
C9_Witness ==
    /\ lastOp.op = "remove"
    /\ ret.some
    /\ Len(nodes) > MaxInitNodes
    /\ Len(nodes) <= KeyMax
    /\ TotalEdges >= 1

----------------------------------------------------------------------------
(* SearchableGraph: LinkedNode and the two searches *)

\* LinkedNode::new: parent is None (the empty sequence), Some(Box) a 1-sequence.
LinkedNode_new(value) == [value |-> value, parent |-> <<>>]

\* LinkedNode::new(edge) followed by edge_node.parent = Some(Box::new(node.clone()))
LinkedNode_child(value, node) == [value |-> value, parent |-> <<node>>]

RECURSIVE Walk(_)
Walk(node) ==
    IF node.parent = <<>> THEN <<node.value>>
    ELSE <<node.value>> \o Walk(node.parent[1])

RECURSIVE Rev(_)
Rev(list) == IF list = <<>> THEN <<>> ELSE Rev(Tail(list)) \o <<Head(list)>>

\* LinkedNode::flatten: the values from the node back to the root, reversed.
flatten(node) == Rev(Walk(node))

NonePath == [some |-> FALSE, path |-> <<>>]
SomePath(p) == [some |-> TRUE, path |-> p]

Contains(seq, x) == \E i \in 1 .. Len(seq) : seq[i] = x

\* SearchableGraph::find_path_dfs, up to the while loop
find_path_dfs(src, dst) ==
    /\ pc = "idle"
    /\ call' = "dfs"
    /\ source' = src
    /\ destination' = dst
    /\ dfs_visited' = <<>>
    /\ stack' = <<LinkedNode_new(src)>>
    /\ pc' = "loop"
    /\ UNCHANGED <<graphVars, bfs_visited, queue, result, enq, deq>>

\* the loop with stack.last() in place of stack.pop() on the visited branch:
\* a node that is already visited is never taken off the stack
dfs_loop_PeeksVisited ==
    /\ pc = "loop"
    /\ call = "dfs"
    /\ IF stack = <<>> THEN
           /\ result' = NonePath
           /\ pc' = "done"
           /\ UNCHANGED <<stack, dfs_visited>>
       ELSE
           LET node == stack[Len(stack)]
               rest == SubSeq(stack, 1, Len(stack) - 1)
               it == get_edges(node.value)
           IN IF Contains(dfs_visited, node.value) THEN
                  UNCHANGED <<stack, dfs_visited, result, pc>>
              ELSE
                  /\ dfs_visited' = Append(dfs_visited, node.value)
                  /\ IF node.value = destination THEN
                         /\ result' = SomePath(flatten(node))
                         /\ pc' = "done"
                         /\ stack' = rest
                     ELSE IF it.some THEN
                         /\ stack' = rest \o
                                [i \in 1 .. Len(Backward(it)) |->
                                     LinkedNode_child(Backward(it)[i], node)]
                         /\ UNCHANGED <<result, pc>>
                     ELSE
                         /\ stack' = rest
                         /\ UNCHANGED <<result, pc>>
    /\ UNCHANGED <<graphVars, call, source, destination, bfs_visited, queue, enq, deq>>

\* One iteration of `while let Some(node) = stack.pop()`, or the final None.
dfs_loop ==
    /\ pc = "loop"
    /\ call = "dfs"
    /\ IF stack = <<>> THEN
           /\ result' = NonePath
           /\ pc' = "done"
           /\ UNCHANGED <<stack, dfs_visited>>
       ELSE
           LET node == stack[Len(stack)]
               rest == SubSeq(stack, 1, Len(stack) - 1)
               it == get_edges(node.value)
           IN IF Contains(dfs_visited, node.value) THEN
                  /\ stack' = rest
                  /\ UNCHANGED <<dfs_visited, result, pc>>
              ELSE
                  /\ dfs_visited' = Append(dfs_visited, node.value)
                  /\ IF node.value = destination THEN
                         /\ result' = SomePath(flatten(node))
                         /\ pc' = "done"
                         /\ stack' = rest
                     ELSE IF it.some THEN
                         /\ stack' = rest \o
                                [i \in 1 .. Len(Backward(it)) |->
                                     LinkedNode_child(Backward(it)[i], node)]
                         /\ UNCHANGED <<result, pc>>
                     ELSE
                         /\ stack' = rest
                         /\ UNCHANGED <<result, pc>>
    /\ UNCHANGED <<graphVars, call, source, destination, bfs_visited, queue, enq, deq>>

\* SearchableGraph::find_path_bfs, up to the while loop
find_path_bfs(src, dst) ==
    /\ pc = "idle"
    /\ call' = "bfs"
    /\ source' = src
    /\ destination' = dst
    /\ bfs_visited' = {}
    /\ queue' = <<LinkedNode_new(src)>>
    /\ enq' = [k \in Keys |-> IF k = src THEN 1 ELSE 0]
    /\ deq' = [k \in Keys |-> 0]
    /\ pc' = "loop"
    /\ UNCHANGED <<graphVars, dfs_visited, stack, result>>

\* the edge loop with a stray `break` after the first enqueue
RECURSIVE bfs_expand_FirstOnly(_, _, _)
bfs_expand_FirstOnly(items, node, st) ==
    IF items = <<>> THEN st
    ELSE LET edge == Head(items) IN
         IF edge \in st.visited THEN bfs_expand_FirstOnly(Tail(items), node, st)
         ELSE [visited |-> st.visited \cup {edge},
               queue |-> Append(st.queue, LinkedNode_child(edge, node)),
               enq |-> [st.enq EXCEPT ![edge] = @ + 1]]

\* the edge loop marking the examined node, not the enqueued edge, as visited
\* (the mark-at-dequeue discipline of find_path_dfs)
RECURSIVE bfs_expand_MarksExamined(_, _, _)
bfs_expand_MarksExamined(items, node, st) ==
    IF items = <<>> THEN st
    ELSE LET edge == Head(items) IN
         IF edge \in st.visited THEN bfs_expand_MarksExamined(Tail(items), node, st)
         ELSE bfs_expand_MarksExamined(Tail(items), node,
                  [visited |-> st.visited \cup {node.value},
                   queue |-> Append(st.queue, LinkedNode_child(edge, node)),
                   enq |-> [st.enq EXCEPT ![edge] = @ + 1]])

\* `for edge in edges { if !visited.contains(edge) { ... } }` in find_path_bfs:
\* the visited set, the queue and the enqueue counts after the loop.
RECURSIVE bfs_expand(_, _, _)
bfs_expand(items, node, st) ==
    IF items = <<>> THEN st
    ELSE LET edge == Head(items) IN
         IF edge \in st.visited THEN bfs_expand(Tail(items), node, st)
         ELSE bfs_expand(Tail(items), node,
                  [visited |-> st.visited \cup {edge},
                   queue |-> Append(st.queue, LinkedNode_child(edge, node)),
                   enq |-> [st.enq EXCEPT ![edge] = @ + 1]])

\* One iteration of `while let Some(node) = queue.pop_front()`, or the final None.
bfs_loop ==
    /\ pc = "loop"
    /\ call = "bfs"
    /\ IF queue = <<>> THEN
           /\ result' = NonePath
           /\ pc' = "done"
           /\ UNCHANGED <<queue, bfs_visited, enq, deq>>
       ELSE
           LET node == Head(queue)
               rest == Tail(queue)
               it == get_edges(node.value)
           IN /\ deq' = [deq EXCEPT ![node.value] = @ + 1]
              /\ IF node.value = destination THEN
                     /\ result' = SomePath(flatten(node))
                     /\ pc' = "done"
                     /\ queue' = rest
                     /\ UNCHANGED <<bfs_visited, enq>>
                 ELSE IF it.some THEN
                     LET st == bfs_expand(Forward(it), node,
                                   [visited |-> bfs_visited, queue |-> rest, enq |-> enq])
                     IN /\ bfs_visited' = st.visited
                        /\ queue' = st.queue
                        /\ enq' = st.enq
                        /\ UNCHANGED <<result, pc>>
                 ELSE
                     /\ queue' = rest
                     /\ UNCHANGED <<bfs_visited, enq, result, pc>>
    /\ UNCHANGED <<graphVars, call, source, destination, dfs_visited, stack>>

----------------------------------------------------------------------------
(* Searching a graph built through the API *)

\* The graph of tests::test_dfs_search and tests::test_bfs_search.
TestNodes == <<"a", "a", "a", "a">>
TestEdges ==
    << <<AdjacencyListEdge(1, W_zero), AdjacencyListEdge(2, W_zero),
         AdjacencyListEdge(3, W_zero)>>,
       <<AdjacencyListEdge(2, W_zero)>>,
       <<AdjacencyListEdge(3, W_zero)>>,
       <<>> >>

SearchInit ==
    /\ signed \in BOOLEAN
    /\ \/ \E n \in 0 .. MaxSearchNodes :
             /\ n <= KeyMax + 1
             /\ new([i \in 1 .. n |-> "a"])
       \/ /\ ~signed
          /\ Len(TestNodes) <= KeyMax + 1
          /\ nodes = TestNodes
          /\ edges = TestEdges
    /\ panicked = FALSE
    /\ lastOp = Op("new", 0)
    /\ ret = RetUnit
    /\ SearchIdle

SearchStep(cap) ==
    \/ /\ pc = "idle"
       /\ \E s \in 0 .. Len(nodes) - 1, d \in Keys :
              EdgeRoom(s, cap) /\ add_connection(s, d)
    \/ \E s \in Keys, d \in Keys : find_path_dfs(s, d)
    \/ dfs_loop
    \/ \E s \in Keys, d \in Keys : find_path_bfs(s, d)
    \/ bfs_loop

SearchNext == SearchStep(MaxSearchEdges)

SearchSpec == SearchInit /\ [][SearchNext]_vars

FairSearchNext == SearchStep(MaxFairSearchEdges)

\* The searches are synchronous loops of a single thread: once called, they
\* keep taking iterations until they return.
FairSearchSpec ==
    /\ SearchInit
    /\ [][FairSearchNext]_vars
    /\ WF_vars(dfs_loop)
    /\ WF_vars(bfs_loop)

----------------------------------------------------------------------------
(* Properties of the searches *)

\* The destinations stored in the edge list of key a, in insertion order;
\* none when a is not a valid index.
Succ(a) == IF a >= 0 /\ a < Len(edges) THEN Destinations(edges[a + 1]) ELSE <<>>

EdgeStored(a, b) == \E i \in 1 .. Len(Succ(a)) : Succ(a)[i] = b

\* The keys some sequence of at most n stored edges leads to from key a.
RECURSIVE ReachWithin(_, _)
ReachWithin(a, n) ==
    IF n = 0 THEN {a}
    ELSE LET R == ReachWithin(a, n - 1) IN
         R \cup {b \in Keys : \E c \in R : EdgeStored(c, b)}

Reachable(a, b) == b \in ReachWithin(a, Cardinality(Keys))

IsPath(p) ==
    /\ Len(p) >= 1
    /\ p[1] = source
    /\ p[Len(p)] = destination
    /\ \A i \in 1 .. Len(p) - 1 : EdgeStored(p[i], p[i + 1])

OnTestGraph(alg) ==
    /\ nodes = TestNodes
    /\ edges = TestEdges
    /\ call = alg
    /\ pc = "done"
    /\ source = 0
    /\ destination = 3

\* C1: a path returned by find_path_bfs starts at source, ends at
\* destination, follows stored edges, and no path from source to destination
\* has fewer edges; on the test graph find_path_bfs(0, 3) is [0, 3].
C1_BfsShortestPath ==
    /\ (call = "bfs" /\ pc = "done" /\ result.some) =>
           /\ IsPath(result.path)
           /\ \A n \in 0 .. Len(result.path) - 2 : destination \notin ReachWithin(source, n)
    /\ OnTestGraph("bfs") => result = [some |-> TRUE, path |-> <<0, 3>>]

\* find_path_bfs(0, 3) has returned on the test graph, where 0 -> 1 -> 2 -> 3
\* is a longer path.
C1_Witness == OnTestGraph("bfs") /\ result.some

\* The recursive depth-first traversal taking each node's edges in insertion
\* order and stopping at the destination: the keys in the order they are
\* marked visited, whether the destination was found, and the chain of calls
\* from the source down to the current key.
RECURSIVE RefVisit(_, _), RefEdges(_, _, _)
RefVisit(u, st) ==
    LET entered == [visited |-> Append(st.visited, u), found |-> u = destination,
                    chain |-> Append(st.chain, u)]
    IN IF entered.found THEN entered
       ELSE LET after == RefEdges(Succ(u), 1, entered) IN
            IF after.found THEN after
            ELSE [after EXCEPT !.chain = SubSeq(@, 1, Len(@) - 1)]

RefEdges(succ, i, st) ==
    IF st.found \/ i > Len(succ) THEN st
    ELSE IF \E j \in 1 .. Len(st.visited) : st.visited[j] = succ[i]
         THEN RefEdges(succ, i + 1, st)
         ELSE RefEdges(succ, i + 1, RefVisit(succ[i], st))

RefDfs == RefVisit(source, [visited |-> <<>>, found |-> FALSE, chain |-> <<>>])

IsPrefix(p, q) == Len(p) <= Len(q) /\ \A i \in 1 .. Len(p) : p[i] = q[i]

\* C2: find_path_dfs marks keys visited in the preorder of the recursive
\* first-added-first traversal and returns that traversal's chain from source
\* to destination, which follows stored edges and repeats no key; on the test
\* graph find_path_dfs(0, 3) is [0, 1, 2, 3].
C2_DfsIsRecursivePreorder ==
    /\ call = "dfs" =>
           /\ IsPrefix(dfs_visited, RefDfs.visited)
           /\ pc = "done" =>
                  /\ dfs_visited = RefDfs.visited
                  /\ result.some = RefDfs.found
                  /\ result.some =>
                         /\ result.path = RefDfs.chain
                         /\ IsPath(result.path)
                         /\ \A i, j \in 1 .. Len(result.path) :
                                i # j => result.path[i] # result.path[j]
    /\ OnTestGraph("dfs") => result = [some |-> TRUE, path |-> <<0, 1, 2, 3>>]

\* find_path_dfs(0, 3) has returned on the test graph, where the direct edge
\* 0 -> 3 is the last of node 0's edges.
C2_Witness == OnTestGraph("dfs") /\ result.some

\* C3: both searches terminate, and when no sequence of stored edges leads
\* from source to destination they return None.
C3_TerminatesAndNotFound ==
    /\ (pc = "loop") ~> (pc = "done")
    /\ [](pc = "done" /\ ~Reachable(source, destination) => ~result.some)

\* A search that returned None after walking a cycle back to its source and
\* an edge to a key that is no node.
C3_Witness ==
    /\ pc = "done"
    /\ ~result.some
    /\ \E a \in ReachWithin(source, Cardinality(Keys)) : EdgeStored(a, source)
    /\ \E a \in ReachWithin(source, Cardinality(Keys)) : ~(a >= 0 /\ a < Len(nodes))

\* C10: during find_path_bfs no key is enqueued more than once and no key is
\* dequeued and examined more than once.
C10_EachKeyOnce ==
    call = "bfs" => \A k \in Keys : enq[k] <= 1 /\ deq[k] <= 1

\* C10, amended: no key other than the source is enqueued or examined more
\* than once; the source, seeded without being marked, at most twice.
C10_EachKeyOnceButSource ==
    call = "bfs" =>
        \A k \in Keys :
            /\ k # source => enq[k] <= 1 /\ deq[k] <= 1
            /\ enq[k] <= 2
            /\ deq[k] <= 2

\* The source was reached again over an edge and examined a second time.
C10_Witness == call = "bfs" /\ enq[source] = 2 /\ deq[source] = 2

====
